---- MODULE Spec2Model ----
(***************************************************************************)
(* A model of three programs of the repository:                            *)
(*   - the crossword constraint solver, src/crossword/generate.py          *)
(*     (CrosswordCreator: node consistency, revise, ac3, backtracking      *)
(*     search with its selection and ordering heuristics);                 *)
(*   - the tic-tac-toe player, src/tictactoe/tictactoe.py;                 *)
(*   - the minesweeper player, src/minesweeper/minesweeper.py.             *)
(* The crossword solver runs under Spec (and FairSpec), the tic-tac-toe    *)
(* player under SpecTTT, a tic-tac-toe game played with minimax under      *)
(* SpecGame and the minesweeper player under SpecMines.                    *)
(***************************************************************************)
EXTENDS Naturals, Integers, Sequences, FiniteSets, TLC

VARIABLES
    varOrder,     \* crossword.variables, in the iteration order of the set
    words,        \* crossword.words, in the iteration order of the set
    driver,       \* which caller drives the solver: "solve" or "ac3_twice"
    domains,      \* self.domains: slot -> list of words
    prevDomains,  \* history: self.domains before the last step
    assignment,   \* the assignment dict handed down the recursion
    stack,        \* the active calls of backtrack, outermost first
    pc,           \* the position of the run
    lastOp,       \* history: the last step taken
    arcs,         \* ac3: the local `arcs`
    queue,        \* ac3: the local `queue`
    ctx,          \* ac3: the call site the running ac3 returns to
    ac3ret,       \* the value the last ac3 call returned
    outcome,      \* what solve() ended with
    firstRun,     \* history: self.domains and the value returned when the first of
                  \* two ac3 runs ended
    returned,     \* history: the call of backtrack that last returned None
    call,         \* history: the arguments and the value of the last call of
                  \* revise, select_unassigned_variable or order_domain_values
    board,        \* tic-tac-toe: the board handed to the functions
    tttOut,       \* tic-tac-toe: the outcome of the last call
    game,         \* tic-tac-toe: a game in which one side plays what minimax
                  \* returns: that side, and the locals of the running minimax
    mineField,    \* minesweeper: Minesweeper.mines, the cells that are mines
    ai,           \* minesweeper: the fields of the MinesweeperAI
    msOut         \* minesweeper: the last call, and the number of
                  \* add_knowledge calls so far

cwVars == <<varOrder, words, driver, domains, prevDomains, assignment, stack,
            pc, lastOp, arcs, queue, ctx, ac3ret, outcome, firstRun,
            returned, call>>
tttVars == <<board, tttOut, game>>
msVars == <<mineField, ai, msOut>>
vars == <<cwVars, tttVars, msVars>>

----------------------------------------------------------------------------
(* Bounds of the model *)

\* The largest dictionary (number of words) a run starts from.
MaxWords == 4

\* minimax is called on boards with at most this many empty cells.
MaxMinimaxCells == 5

\* The height and the width of the minesweeper field.
MsHeight == 3
MsWidth == 3

\* The largest number of mines on the field.
MaxMines == 2

\* The largest number of add_knowledge calls in a run.
MaxCalls == 4

----------------------------------------------------------------------------
(* Generic helpers *)

Range(s) == {s[k] : k \in 1..Len(s)}

RECURSIVE Orderings(_)
\* Every order in which a finite set can be iterated.
Orderings(S) ==
    IF S = {} THEN {<<>>}
    ELSE UNION {{<<x>> \o t : t \in Orderings(S \ {x})} : x \in S}

RemoveAt(s, k) == [n \in 1..(Len(s) - 1) |-> IF n < k THEN s[n] ELSE s[n + 1]]

----------------------------------------------------------------------------
(* The puzzle description (crossword.py: Variable, Crossword) *)

ACROSS == "across"
DOWN == "down"

\* Python's None where a tuple (i, j) is expected.
None == <<>>

Variable(i, j, direction, length) ==
    [i |-> i, j |-> j, direction |-> direction, length |-> length]

\* Variable.cells: the grid cells of a slot, in word order.
Cells(v) ==
    [k \in 1..v.length |->
        <<v.i + (IF v.direction = DOWN THEN k - 1 ELSE 0),
          v.j + (IF v.direction = ACROSS THEN k - 1 ELSE 0)>>]

IndexOf(s, x) == (CHOOSE k \in 1..Len(s) : s[k] = x) - 1

\* Crossword.overlaps[v1, v2] for v1 # v2: None, or the pair of 0-based
\* positions of the shared cell.
Overlaps(v1, v2) ==
    LET common == Range(Cells(v1)) \cap Range(Cells(v2))
    IN  IF common = {} THEN None
        ELSE LET c == CHOOSE c \in common : TRUE
             IN  <<IndexOf(Cells(v1), c), IndexOf(Cells(v2), c)>>

\* Two crossing slots: a 3-letter across word and a 2-letter down word
\* through its middle letter.
CrossStructure == {Variable(0, 0, ACROSS, 3), Variable(0, 1, DOWN, 2)}

\* Two slots that share no cell.
ParallelStructure == {Variable(0, 0, ACROSS, 2), Variable(2, 0, ACROSS, 3)}

\* Two slots of the same length that share no cell.
TwinStructure == {Variable(0, 0, ACROSS, 2), Variable(2, 0, ACROSS, 2)}

\* A 3-letter across word with a 2-letter down word hanging from each end.
ThreeStructure ==
    {Variable(0, 0, ACROSS, 3), Variable(0, 0, DOWN, 2), Variable(0, 2, DOWN, 2)}

\* Two 2-letter slots that start in the same cell.
CornerStructure == {Variable(0, 0, ACROSS, 2), Variable(0, 0, DOWN, 2)}

Structures ==
    {CrossStructure, ParallelStructure, TwinStructure, ThreeStructure, CornerStructure}

WordUniverse ==
    {<<"a", "a">>, <<"a", "b">>, <<"b", "a">>, <<"b", "b">>,
     <<"a", "b", "b">>, <<"b", "a", "b">>}

\* The word lists a run can start from: the words of a dictionary in the
\* order the set iterates them.
Dictionaries ==
    UNION {Orderings(S) : S \in {T \in SUBSET WordUniverse : Cardinality(T) <= MaxWords}}

\* Letter k (0-based, as in Python) of a word.
Letter(word, k) == word[k + 1]

----------------------------------------------------------------------------
(* CrosswordCreator: the consistency engine *)

\* __init__: every slot starts with a copy of the whole word set.
InitDomains(vs, ws) == [v \in vs |-> ws]

\* enforce_node_consistency: keep the words of the slot's length, in order.
NodeConsistent(doms) ==
    [v \in DOMAIN doms |->
        SelectSeq(doms[v], LAMBDA word : Len(word) = v.length)]

\* can_overlap(word, domain, overlap)
can_overlap(word, domain, overlap) ==
    LET i == overlap[1]
        j == overlap[2]
        overlap_y_letters == {Letter(domain[n], j) : n \in 1..Len(domain)}
    IN  Letter(word, i) \in overlap_y_letters

RECURSIVE ReviseLoop(_, _, _, _)
\* The loop of revise: `for word in self.domains[x]` walks the list by
\* position while the body removes from the same list, so the word that
\* follows a removed word moves into the position just visited and is
\* never looked at.
ReviseLoop(dx, k, dy, overlap) ==
    IF k > Len(dx) THEN dx
    ELSE IF ~can_overlap(dx[k], dy, overlap)
         THEN ReviseLoop(RemoveAt(dx, k), k + 1, dy, overlap)
         ELSE ReviseLoop(dx, k + 1, dy, overlap)

\* A variant of revise that reports a revision whenever the slots overlap.
revise_reports_overlap(doms, x, y) ==
    LET overlap == Overlaps(x, y)
    IN  IF overlap = None
        THEN [domains |-> doms, revised |-> FALSE]
        ELSE [domains |-> [doms EXCEPT ![x] = ReviseLoop(doms[x], 1, doms[y], overlap)],
              revised |-> TRUE]

\* revise(x, y): the domains after the call and the value returned.
revise(doms, x, y) ==
    LET overlap == Overlaps(x, y)
    IN  IF overlap = None
        THEN [domains |-> doms, revised |-> FALSE]
        ELSE LET dx == ReviseLoop(doms[x], 1, doms[y], overlap)
             IN  [domains |-> [doms EXCEPT ![x] = dx],
                  revised |-> Len(dx) # Len(doms[x])]

\* crossword.overlaps.items() keys in dict order: the dict is filled by two
\* nested loops over crossword.variables.
OverlapKeys(order) ==
    LET n == Len(order)
        all == [p \in 1..(n * n) |->
                  <<order[((p - 1) \div n) + 1], order[((p - 1) % n) + 1]>>]
    IN  SelectSeq(all, LAMBDA k : k[1] # k[2])

\* ac3, lines 140-142: the default arcs are the keys with an overlap.
DefaultArcs(order) ==
    SelectSeq(OverlapKeys(order), LAMBDA k : Overlaps(k[1], k[2]) # None)

\* A variant of the neighbors of ac3 that takes them from the whole puzzle
\* instead of the arcs handed to ac3.
Ac3Neighbors_of_puzzle(as, v1, v2) ==
    {n \in Range(varOrder) : n # v1 /\ Overlaps(n, v1) # None}

\* ac3, lines 152-155: the slots of the arcs of `arcs` that mention v1, v1
\* itself left out (`v1 or v2` is v1: a Variable is truthy).
Ac3Neighbors(as, v1, v2) ==
    {n \in UNION {{as[k][1], as[k][2]} : k \in {m \in 1..Len(as) : v1 \in {as[m][1], as[m][2]}}} :
        n # v1}

\* ac3, lines 157-159: the arcs appended when the neighbors are iterated in
\* `order`.
Ac3Enqueue(order, v1) ==
    LET kept == SelectSeq(order, LAMBDA var : Overlaps(var, v1) # None)
    IN  [k \in 1..Len(kept) |-> <<kept[k], v1>>]

----------------------------------------------------------------------------
(* CrosswordCreator: the search engine *)

EmptyAssignment == [v \in {} |-> <<>>]

\* assignment_complete
assignment_complete(a, order) == Cardinality(DOMAIN a) = Len(order)

\* A variant of consistent that lets two slots hold the same word.
consistent_repeats(a) ==
    /\ \A v \in DOMAIN a : Len(a[v]) = v.length
    /\ \A v1, v2 \in DOMAIN a :
          (v1 # v2 /\ Overlaps(v1, v2) # None) =>
              Letter(a[v1], Overlaps(v1, v2)[1]) = Letter(a[v2], Overlaps(v1, v2)[2])

\* consistent: every word has its slot's length and is used once, and every
\* two assigned slots that overlap agree on the shared letter.
consistent(a) ==
    /\ \A v \in DOMAIN a : Len(a[v]) = v.length
    /\ \A v1, v2 \in DOMAIN a : v1 # v2 => a[v1] # a[v2]
    /\ \A v1, v2 \in DOMAIN a :
          (v1 # v2 /\ Overlaps(v1, v2) # None) =>
              Letter(a[v1], Overlaps(v1, v2)[1]) = Letter(a[v2], Overlaps(v1, v2)[2])

\* The unassigned slots that overlap var (order_domain_values 204-210 and
\* infer 302-307 build the same set).
UnassignedNeighbors(var, a, order) ==
    {n \in Range(order) : n # var /\ n \notin DOMAIN a /\ Overlaps(var, n) # None}

\* order_domain_values, lines 212-219: rules_out[word1].
RulesOut(doms, var, word1, neighbors) ==
    LET cnt(neighbor) ==
            Cardinality({n \in 1..Len(doms[neighbor]) :
                Letter(word1, Overlaps(var, neighbor)[1])
                    # Letter(doms[neighbor][n], Overlaps(var, neighbor)[2])})
        RECURSIVE Sum(_)
        Sum(S) == IF S = {} THEN 0
                  ELSE LET x == CHOOSE x \in S : TRUE IN cnt(x) + Sum(S \ {x})
    IN  Sum(neighbors)

RECURSIVE StableInsert(_, _, _)
\* Insert x into the sorted list s behind every element with a key not
\* greater than x's (sorted() is stable).
StableInsert(s, x, key) ==
    IF s = <<>> THEN <<x>>
    ELSE IF key[Head(s)] <= key[x]
         THEN <<Head(s)>> \o StableInsert(Tail(s), x, key)
         ELSE <<x>> \o s

RECURSIVE StableSort(_, _)
\* sorted(items, key=...): the list s in ascending order of key, equal keys
\* in their order in s.
StableSort(s, key) ==
    IF s = <<>> THEN <<>>
    ELSE StableInsert(StableSort(SubSeq(s, 1, Len(s) - 1), key), s[Len(s)], key)

\* A variant of order_domain_values that returns the domain as it stands.
order_domain_values_unsorted(doms, var, a, order) == doms[var]

\* order_domain_values(var, assignment)
order_domain_values(doms, var, a, order) ==
    LET neighbors == UnassignedNeighbors(var, a, order)
        rules_out == [word1 \in Range(doms[var]) |-> RulesOut(doms, var, word1, neighbors)]
    IN  StableSort(doms[var], rules_out)

\* select_unassigned_variable, lines 240-246: the unassigned slots with the
\* smallest domain, in the order of crossword.variables.
MinDomainVars(doms, a, order) ==
    LET vars_to_check == SelectSeq(order, LAMBDA var : var \notin DOMAIN a)
        min_len == CHOOSE m \in {Len(doms[vars_to_check[k]]) : k \in 1..Len(vars_to_check)} :
                      \A k \in 1..Len(vars_to_check) : m <= Len(doms[vars_to_check[k]])
    IN  IF vars_to_check = <<>> THEN <<>>
        ELSE SelectSeq(vars_to_check, LAMBDA var : Len(doms[var]) = min_len)

\* select_unassigned_variable, lines 251-255: var_degree, the number of
\* slots on the arcs that mention var (var itself among them).
VarDegree(var, order) ==
    LET keys == OverlapKeys(order)
        arcsOf == {k \in 1..Len(keys) :
                     Overlaps(keys[k][1], keys[k][2]) # None /\ var \in {keys[k][1], keys[k][2]}}
    IN  Cardinality(UNION {{keys[k][1], keys[k][2]} : k \in arcsOf})

\* The value of var_to_return when no slot was chosen.
NoVar == Variable(0 - 1, 0 - 1, "none", 0)

RECURSIVE DegreeLoop(_, _, _, _)
\* select_unassigned_variable, lines 249-257: highest_degree stays 0, so
\* every tied slot with a degree above 0 replaces var_to_return.
DegreeLoop(tied, k, var_to_return, order) ==
    IF k > Len(tied) THEN var_to_return
    ELSE IF VarDegree(tied[k], order) > 0
         THEN DegreeLoop(tied, k + 1, tied[k], order)
         ELSE DegreeLoop(tied, k + 1, var_to_return, order)

\* select_unassigned_variable(assignment), called with a slot unassigned.
select_unassigned_variable(doms, a, order) ==
    LET min_domain_vars == MinDomainVars(doms, a, order)
    IN  IF Len(min_domain_vars) > 1
        THEN DegreeLoop(min_domain_vars, 1, NoVar, order)
        ELSE min_domain_vars[1]

\* A variant of the restore that puts back the chosen slot's domain only.
RestoreDomains_var_only(doms, frame) ==
    [v \in DOMAIN doms |-> IF v = frame.var THEN frame.old_domains[v] ELSE doms[v]]

\* A variant of the restore that refills the touched domains from the
\* dictionary instead of the snapshot.
RestoreDomains_refill(doms, frame) ==
    [v \in DOMAIN doms |->
        IF v = frame.var \/ v \in frame.inferred
        THEN SelectSeq(words, LAMBDA word : Len(word) = v.length)
        ELSE doms[v]]

\* backtrack, lines 289-292: the restore after a failed candidate.
RestoreDomains(doms, frame) ==
    [v \in DOMAIN doms |->
        IF v = frame.var \/ v \in frame.inferred THEN frame.old_domains[v] ELSE doms[v]]

\* backtrack, line 290: del assignment[var]
DelAssignment(a, var) == [v \in DOMAIN a \ {var} |-> a[v]]

\* backtrack, line 281: assignment[var] = value
SetAssignment(a, var, value) ==
    [v \in DOMAIN a \cup {var} |-> IF v = var THEN value ELSE a[v]]

----------------------------------------------------------------------------
(* The run of the crossword solver *)

Drivers == {"solve", "ac3_twice", "calls"}

\* The record kept of a call: revise(x, y) with the value it returned and
\* the arcs ac3 appended after it; select_unassigned_variable with the slot
\* it returned; order_domain_values(var) with the list it returned.
CallDetail(op, x, y, ret, appended, var, values) ==
    [op |-> op, x |-> x, y |-> y, ret |-> ret, appended |-> appended,
     var |-> var, values |-> values]

NoDetail == CallDetail("none", NoVar, NoVar, FALSE, <<>>, NoVar, <<>>)

Pending == [kind |-> "pending", value |-> EmptyAssignment]

Top == stack[Len(stack)]

Pop == SubSeq(stack, 1, Len(stack) - 1)

ReplaceTop(frame) == [stack EXCEPT ![Len(stack)] = frame]

InitCrossword ==
    \E st \in Structures, ws \in Dictionaries, d \in Drivers :
        \E vo \in Orderings(st) :
            /\ varOrder = vo
            /\ words = ws
            /\ driver = d
            /\ domains = InitDomains(st, ws)
            /\ prevDomains = InitDomains(st, ws)
            /\ assignment = EmptyAssignment
            /\ stack = <<>>
            /\ pc = "solve"
            /\ lastOp = "init"
            /\ arcs = <<>>
            /\ queue = <<>>
            /\ ctx = "none"
            /\ ac3ret = "none"
            /\ outcome = Pending
            /\ firstRun = [domains |-> InitDomains(st, ws), ret |-> "none"]
            /\ returned = <<>>
            /\ call = NoDetail

\* solve, line 95 (and the first call of a caller that runs ac3 twice, or
\* that goes on to call revise and the two heuristics itself).
EnforceNodeConsistency ==
    /\ pc = "solve"
    /\ domains' = NodeConsistent(domains)
    /\ prevDomains' = domains
    /\ pc' = IF driver = "calls" THEN "calls" ELSE "ac3_call"
    /\ ctx' = CASE driver = "solve" -> "solve"
                [] driver = "ac3_twice" -> "first"
                [] OTHER -> "none"
    /\ lastOp' = "enforce_node_consistency"
    /\ call' = NoDetail
    /\ UNCHANGED <<tttVars, msVars, returned, varOrder, words, driver, assignment, stack, arcs, queue,
                   ac3ret, outcome, firstRun>>

\* ac3(), lines 140-144: the call with the default arcs.
Ac3Call ==
    /\ pc = "ac3_call"
    /\ arcs' = DefaultArcs(varOrder)
    /\ queue' = DefaultArcs(varOrder)
    /\ pc' = "ac3"
    /\ prevDomains' = domains
    /\ lastOp' = "ac3_call"
    /\ call' = NoDetail
    /\ UNCHANGED <<tttVars, msVars, returned, varOrder, words, driver, domains, assignment, stack, ctx,
                   ac3ret, outcome, firstRun>>

\* The return of ac3 to its call site: solve line 96 and infer line 311 go
\* on to backtrack; the caller that runs ac3 twice calls it again, then ends.
Ac3Exit(doms, ret) ==
    /\ ac3ret' = ret
    /\ arcs' = <<>>
    /\ queue' = <<>>
    /\ CASE ctx = "first" ->
              /\ pc' = "ac3_call"
              /\ ctx' = "second"
              /\ firstRun' = [domains |-> doms, ret |-> ret]
              /\ UNCHANGED outcome
         [] ctx = "second" ->
              /\ pc' = "done"
              /\ ctx' = "none"
              /\ outcome' = [kind |-> "ac3_twice", value |-> EmptyAssignment]
              /\ UNCHANGED firstRun
         [] OTHER ->
              /\ pc' = "backtrack"
              /\ ctx' = "none"
              /\ UNCHANGED <<outcome, firstRun>>

\* ac3, lines 146-159: one turn of the while loop.
Ac3Step ==
    /\ pc = "ac3"
    /\ queue # <<>>
    /\ LET v1 == Head(queue)[1]
           v2 == Head(queue)[2]
           r == revise(domains, v1, v2)
       IN  /\ domains' = r.domains
           /\ prevDomains' = domains
           /\ lastOp' = "revise"
           /\ IF r.revised
              THEN IF Len(r.domains[v1]) = 0
                   THEN /\ Ac3Exit(r.domains, "False")
                        /\ call' = CallDetail("revise", v1, v2, TRUE, <<>>, NoVar, <<>>)
                   ELSE /\ \E order \in Orderings(Ac3Neighbors(arcs, v1, v2)) :
                              /\ queue' = Tail(queue) \o Ac3Enqueue(order, v1)
                              /\ call' = CallDetail("revise", v1, v2, TRUE,
                                                    Ac3Enqueue(order, v1), NoVar, <<>>)
                        /\ UNCHANGED <<pc, ctx, arcs, ac3ret, outcome, firstRun>>
              ELSE /\ queue' = Tail(queue)
                   /\ call' = CallDetail("revise", v1, v2, FALSE, <<>>, NoVar, <<>>)
                   /\ UNCHANGED <<pc, ctx, arcs, ac3ret, outcome, firstRun>>
    /\ UNCHANGED <<tttVars, msVars, returned, varOrder, words, driver, assignment, stack>>

\* ac3, line 160: the worklist is empty.
Ac3Return ==
    /\ pc = "ac3"
    /\ queue = <<>>
    /\ Ac3Exit(domains, "True")
    /\ prevDomains' = domains
    /\ lastOp' = "ac3_return"
    /\ call' = NoDetail
    /\ UNCHANGED <<tttVars, msVars, returned, varOrder, words, driver, domains, assignment, stack>>

\* backtrack, lines 271-272: the assignment is complete and is returned
\* through every caller (lines 286-287).
BtComplete ==
    /\ pc = "backtrack"
    /\ assignment_complete(assignment, varOrder)
    /\ outcome' = [kind |-> "assignment", value |-> assignment]
    /\ pc' = "done"
    /\ stack' = <<>>
    /\ prevDomains' = domains
    /\ lastOp' = "return_assignment"
    /\ call' = NoDetail
    /\ UNCHANGED <<tttVars, msVars, returned, varOrder, words, driver, domains, assignment, arcs, queue,
                   ctx, ac3ret, firstRun>>

\* backtrack, lines 273-275: a slot is selected and its values are ordered.
BtSelect ==
    /\ pc = "backtrack"
    /\ ~assignment_complete(assignment, varOrder)
    /\ LET var == select_unassigned_variable(domains, assignment, varOrder)
       IN  /\ var # NoVar
           /\ stack' = Append(stack,
                  [var |-> var,
                   values |-> order_domain_values(domains, var, assignment, varOrder),
                   idx |-> 1,
                   old_domains |-> domains,
                   inferred |-> {},
                   entryDomains |-> domains,
                   entryAssignment |-> assignment])
    /\ call' = LET var == select_unassigned_variable(domains, assignment, varOrder)
               IN  CallDetail("select_order", NoVar, NoVar, FALSE, <<>>, var,
                              order_domain_values(domains, var, assignment, varOrder))
    /\ pc' = "loop"
    /\ prevDomains' = domains
    /\ lastOp' = "select"
    /\ UNCHANGED <<tttVars, msVars, returned, varOrder, words, driver, domains, assignment, arcs, queue,
                   ctx, ac3ret, outcome, firstRun>>

\* backtrack, lines 273-275: select_unassigned_variable returned None, and
\* order_domain_values(None, ...) raises KeyError at self.domains[var]; no
\* caller catches it.
BtKeyError ==
    /\ pc = "backtrack"
    /\ ~assignment_complete(assignment, varOrder)
    /\ select_unassigned_variable(domains, assignment, varOrder) = NoVar
    /\ pc' = "error"
    /\ outcome' = [kind |-> "KeyError", value |-> EmptyAssignment]
    /\ prevDomains' = domains
    /\ lastOp' = "raise"
    /\ call' = CallDetail("select", NoVar, NoVar, FALSE, <<>>, NoVar, <<>>)
    /\ UNCHANGED <<tttVars, msVars, returned, varOrder, words, driver, domains, assignment, stack, arcs,
                   queue, ctx, ac3ret, firstRun>>

\* backtrack, lines 275-279: the candidate fails `consistent`.
BtReject ==
    /\ pc = "loop"
    /\ Top.idx <= Len(Top.values)
    /\ ~consistent(SetAssignment(assignment, Top.var, Top.values[Top.idx]))
    /\ stack' = ReplaceTop([Top EXCEPT !.idx = @ + 1])
    /\ prevDomains' = domains
    /\ lastOp' = "reject"
    /\ call' = NoDetail
    /\ UNCHANGED <<tttVars, msVars, returned, varOrder, words, driver, domains, assignment, pc, arcs,
                   queue, ctx, ac3ret, outcome, firstRun>>

\* backtrack, lines 275-283, with infer, lines 302-311, up to the loop of the
\* ac3 call it makes: the candidate is consistent and is assigned.
BtAssign ==
    /\ pc = "loop"
    /\ Top.idx <= Len(Top.values)
    /\ LET var == Top.var
           value == Top.values[Top.idx]
           new_assignment == SetAssignment(assignment, var, value)
           neighbors == UnassignedNeighbors(var, new_assignment, varOrder)
       IN  /\ consistent(new_assignment)
           /\ assignment' = new_assignment
           /\ domains' = [domains EXCEPT ![var] = <<value>>]
           /\ stack' = ReplaceTop([Top EXCEPT !.old_domains = domains,
                                              !.inferred = neighbors])
           /\ \E order \in Orderings(neighbors) :
                 /\ arcs' = [k \in 1..Len(order) |-> <<order[k], var>>]
                 /\ queue' = [k \in 1..Len(order) |-> <<order[k], var>>]
    /\ pc' = "ac3"
    /\ ctx' = "infer"
    /\ prevDomains' = domains
    /\ lastOp' = "assign"
    /\ call' = NoDetail
    /\ UNCHANGED <<tttVars, msVars, returned, varOrder, words, driver, ac3ret, outcome, firstRun>>

\* backtrack, line 294: every candidate failed; None goes to the caller, or
\* out of solve when this is the outermost call.
BtExhaust ==
    /\ pc = "loop"
    /\ Top.idx > Len(Top.values)
    /\ stack' = Pop
    /\ IF Len(stack) = 1
       THEN /\ pc' = "done"
            /\ outcome' = [kind |-> "None", value |-> EmptyAssignment]
       ELSE /\ pc' = "restore"
            /\ UNCHANGED outcome
    /\ returned' = <<Top>>
    /\ prevDomains' = domains
    /\ lastOp' = "return_none"
    /\ call' = NoDetail
    /\ UNCHANGED <<tttVars, msVars, varOrder, words, driver, domains, assignment, arcs, queue,
                   ctx, ac3ret, firstRun>>

\* backtrack, lines 284-292: the recursive call returned None; the
\* candidate is undone and the loop goes on.
BtRestore ==
    /\ pc = "restore"
    /\ domains' = RestoreDomains(domains, Top)
    /\ assignment' = DelAssignment(assignment, Top.var)
    /\ stack' = ReplaceTop([Top EXCEPT !.idx = @ + 1])
    /\ pc' = "loop"
    /\ prevDomains' = domains
    /\ lastOp' = "restore"
    /\ call' = NoDetail
    /\ UNCHANGED <<tttVars, msVars, returned, varOrder, words, driver, arcs, queue, ctx, ac3ret, outcome,
                   firstRun>>

\* A caller that, after enforce_node_consistency, makes one call itself:
\* revise(x, y) with any two slots.
DirectRevise ==
    /\ pc = "calls"
    /\ \E x \in Range(varOrder), y \in Range(varOrder) :
          /\ x # y
          /\ LET r == revise(domains, x, y)
             IN  /\ domains' = r.domains
                 /\ call' = CallDetail("revise", x, y, r.revised, <<>>, NoVar, <<>>)
    /\ pc' = "done"
    /\ outcome' = [kind |-> "calls", value |-> EmptyAssignment]
    /\ prevDomains' = domains
    /\ lastOp' = "call_revise"
    /\ UNCHANGED <<tttVars, msVars, returned, varOrder, words, driver, assignment, stack, arcs,
                   queue, ctx, ac3ret, firstRun>>

\* select_unassigned_variable(dict()) called directly.
DirectSelect ==
    /\ pc = "calls"
    /\ call' = CallDetail("select", NoVar, NoVar, FALSE, <<>>,
                          select_unassigned_variable(domains, assignment, varOrder), <<>>)
    /\ pc' = "done"
    /\ outcome' = [kind |-> "calls", value |-> EmptyAssignment]
    /\ prevDomains' = domains
    /\ lastOp' = "call_select"
    /\ UNCHANGED <<tttVars, msVars, returned, varOrder, words, driver, domains, assignment, stack,
                   arcs, queue, ctx, ac3ret, firstRun>>

\* order_domain_values(var, dict()) called directly, with any slot.
DirectOrder ==
    /\ pc = "calls"
    /\ \E var \in Range(varOrder) :
          call' = CallDetail("order", NoVar, NoVar, FALSE, <<>>, var,
                             order_domain_values(domains, var, assignment, varOrder))
    /\ pc' = "done"
    /\ outcome' = [kind |-> "calls", value |-> EmptyAssignment]
    /\ prevDomains' = domains
    /\ lastOp' = "call_order"
    /\ UNCHANGED <<tttVars, msVars, returned, varOrder, words, driver, domains, assignment, stack,
                   arcs, queue, ctx, ac3ret, firstRun>>

Next ==
    \/ EnforceNodeConsistency
    \/ Ac3Call
    \/ Ac3Step
    \/ Ac3Return
    \/ BtComplete
    \/ BtSelect
    \/ BtKeyError
    \/ BtReject
    \/ BtAssign
    \/ BtExhaust
    \/ BtRestore
    \/ DirectRevise
    \/ DirectSelect
    \/ DirectOrder

----------------------------------------------------------------------------
(* Tic-tac-toe (tictactoe.py) *)

X == "X"
O == "O"
EMPTY == "EMPTY"
BOARD_DIM == 3
X_WIN == 1
O_WIN == -1
DRAW == 0

\* The (i, j) pairs of the grid, 0-based as in Python.
AllCells == {<<i, j>> : i \in 0..(BOARD_DIM - 1), j \in 0..(BOARD_DIM - 1)}

\* board[i][j]
At(b, i, j) == b[i + 1][j + 1]

Count(b, mark) == Cardinality({c \in AllCells : At(b, c[1], c[2]) = mark})

initial_state ==
    <<<<EMPTY, EMPTY, EMPTY>>, <<EMPTY, EMPTY, EMPTY>>, <<EMPTY, EMPTY, EMPTY>>>>

player(b) == IF Count(b, X) = Count(b, O) THEN X ELSE O

actions(b) == {c \in AllCells : At(b, c[1], c[2]) = EMPTY}

\* A variant of result that writes the move into the board it was handed
\* (no deepcopy).
result_in_place(b, action) ==
    LET i == action[1]
        j == action[2]
        written == [b EXCEPT ![i + 1][j + 1] = player(b)]
    IN  IF At(b, i, j) # EMPTY
        THEN [raised |-> TRUE, value |-> <<>>, arg |-> b]
        ELSE [raised |-> FALSE, value |-> written, arg |-> written]

\* result(board, action): whether it raised, the board it returned, and the
\* caller's board after the call (the move is written into a deepcopy).
result(b, action) ==
    LET i == action[1]
        j == action[2]
    IN  IF At(b, i, j) # EMPTY
        THEN [raised |-> TRUE, value |-> <<>>, arg |-> b]
        ELSE [raised |-> FALSE,
              value |-> [b EXCEPT ![i + 1][j + 1] = player(b)],
              arg |-> b]

\* winner, lines 72-89: the sets of marks of the lines, in the order they
\* are appended: column i and row i for each i, then the two diagonals.
LineStates(b) ==
    LET col(i) == {At(b, j, i) : j \in 0..(BOARD_DIM - 1)}
        row(i) == {At(b, i, j) : j \in 0..(BOARD_DIM - 1)}
        diag1 == {At(b, i, i) : i \in 0..(BOARD_DIM - 1)}
        diag2 == {At(b, i, 2 - i) : i \in 0..(BOARD_DIM - 1)}
    IN  <<col(0), row(0), col(1), row(1), col(2), row(2), diag1, diag2>>

\* A variant of winner that looks at the rows and columns only.
winner_no_diagonals(b) ==
    LET states == SubSeq(LineStates(b), 1, 2 * BOARD_DIM)
        won == {k \in 1..Len(states) : states[k] = {X} \/ states[k] = {O}}
    IN  IF won = {} THEN EMPTY
        ELSE LET first == CHOOSE k \in won : \A m \in won : k <= m
             IN  IF states[first] = {X} THEN X ELSE O

\* winner: the mark of the first line holding one mark that is X or O.
winner(b) ==
    LET states == LineStates(b)
        won == {k \in 1..Len(states) : states[k] = {X} \/ states[k] = {O}}
    IN  IF won = {} THEN EMPTY
        ELSE LET first == CHOOSE k \in won : \A m \in won : k <= m
             IN  IF states[first] = {X} THEN X ELSE O

terminal(b) == Count(b, EMPTY) = 0 \/ winner(b) # EMPTY

utility(b) ==
    IF winner(b) = X THEN X_WIN
    ELSE IF winner(b) = O THEN O_WIN
    ELSE DRAW

SetMax(S) == CHOOSE m \in S : \A n \in S : n <= m

SetMin(S) == CHOOSE m \in S : \A n \in S : m <= n

RECURSIVE max_value(_), min_value(_)
max_value(b) ==
    IF terminal(b) THEN utility(b)
    ELSE SetMax({min_value(result(b, action).value) : action \in actions(b)})

min_value(b) ==
    IF terminal(b) THEN utility(b)
    ELSE SetMin({max_value(result(b, action).value) : action \in actions(b)})

\* minimax, lines 137 and 141: the rating the loop gives each action.
Ratings(b) ==
    [action \in actions(b) |->
        IF player(b) = X THEN min_value(result(b, action).value)
        ELSE max_value(result(b, action).value)]

RECURSIVE MinimaxLoop(_, _, _, _, _)
\* minimax, lines 135-145: `ratings` starts at the worst value for the
\* mover; turn i stores the rating of acts[i] and returns acts[i] when the
\* rating is better than the worst value still in `ratings`.
MinimaxLoop(acts, rating, ratings, i, current_player) ==
    IF i > Len(acts) THEN acts[1]
    ELSE LET updated == [ratings EXCEPT ![i] = rating[acts[i]]]
         IN  IF current_player = X /\ updated[i] > SetMin(Range(updated))
             THEN acts[i]
             ELSE IF current_player = O /\ updated[i] < SetMax(Range(updated))
             THEN acts[i]
             ELSE MinimaxLoop(acts, rating, updated, i + 1, current_player)

\* minimax(board), with acts = list(actions(board)) in the order the set
\* iterates and `rating` the ratings of the actions.
minimax(b, acts, rating) ==
    LET current_player == player(b)
        ratings == [k \in 1..Len(acts) |-> IF current_player = X THEN 0 - 1 ELSE 1]
    IN  MinimaxLoop(acts, rating, ratings, 1, current_player)

NoCall == [op |-> "none", action |-> <<>>, before |-> <<>>,
           raised |-> FALSE, value |-> <<>>]

\* result(board, action), called with any cell of the grid.  `board` is the
\* caller's board after the call, tttOut.before the board it passed.
CallResult ==
    /\ tttOut.op = "none"
    /\ \E action \in AllCells :
          LET r == result(board, action)
          IN  /\ tttOut' = [op |-> "result", action |-> action, before |-> board,
                            raised |-> r.raised, value |-> r.value]
              /\ board' = r.arg
    /\ UNCHANGED <<game, cwVars, msVars>>

\* actions(board)
CallActions ==
    /\ tttOut.op = "none"
    /\ tttOut' = [op |-> "actions", action |-> <<>>, before |-> board,
                  raised |-> FALSE, value |-> actions(board)]
    /\ UNCHANGED <<board, game, cwVars, msVars>>

\* minimax(board) on a board whose game is not over.
CallMinimax ==
    /\ tttOut.op = "none"
    /\ ~terminal(board)
    /\ Cardinality(actions(board)) <= MaxMinimaxCells
    /\ \E rating \in {Ratings(board)} : \E acts \in Orderings(actions(board)) :
          tttOut' = [op |-> "minimax", action |-> <<>>, before |-> board,
                     raised |-> FALSE, value |-> minimax(board, acts, rating)]
    /\ UNCHANGED <<board, game, cwVars, msVars>>

\* winner(board); None is shown as EMPTY, which is None in the code.
CallWinner ==
    /\ tttOut.op = "none"
    /\ tttOut' = [op |-> "winner", action |-> <<>>, before |-> board,
                  raised |-> FALSE, value |-> winner(board)]
    /\ UNCHANGED <<board, game, cwVars, msVars>>

\* terminal(board)
CallTerminal ==
    /\ tttOut.op = "none"
    /\ tttOut' = [op |-> "terminal", action |-> <<>>, before |-> board,
                  raised |-> FALSE, value |-> terminal(board)]
    /\ UNCHANGED <<board, game, cwVars, msVars>>

\* utility(board)
CallUtility ==
    /\ tttOut.op = "none"
    /\ tttOut' = [op |-> "utility", action |-> <<>>, before |-> board,
                  raised |-> FALSE, value |-> utility(board)]
    /\ UNCHANGED <<board, game, cwVars, msVars>>

\* The caller goes on after a call that returned: with the board result
\* returned, or with its own board after a query.  A raised exception is
\* not caught, so nothing follows it.
Continue ==
    /\ tttOut.op # "none"
    /\ ~tttOut.raised
    /\ board' = IF tttOut.op = "result" THEN tttOut.value ELSE board
    /\ tttOut' = NoCall
    /\ UNCHANGED <<game, cwVars, msVars>>

NoGame == [side |-> "none", acts |-> <<>>, ratings |-> <<>>]

\* minimax, lines 131-134: `ratings` before the loop, the worst value for
\* the mover in every place.
InitialRatings(current_player, n) ==
    [k \in 1..n |-> IF current_player = X THEN 0 - 1 ELSE 1]

\* A variant of the rating that gives every action the value of a draw.
ActionRating_draw(b, action) == DRAW

\* A board as a number: cell (i, j) is digit 3 * i + j in base 3.
BoardCode(b) ==
    LET digit(mark) == IF mark = EMPTY THEN 0 ELSE IF mark = X THEN 1 ELSE 2
        RECURSIVE Sum(_)
        Sum(p) == IF p < 0 THEN 0
                  ELSE digit(At(b, p \div BOARD_DIM, p % BOARD_DIM)) + 3 * Sum(p - 1)
    IN  Sum(BOARD_DIM * BOARD_DIM - 1)

\* The board a number stands for.
BoardOf(n) ==
    LET RECURSIVE Digits(_, _)
        Digits(m, k) == IF k = 0 THEN <<>> ELSE Digits(m \div 3, k - 1) \o <<m % 3>>
        ds == Digits(n, BOARD_DIM * BOARD_DIM)
        mark(d) == IF d = 0 THEN EMPTY ELSE IF d = 1 THEN X ELSE O
    IN  [i \in 1..BOARD_DIM |-> [j \in 1..BOARD_DIM |-> mark(ds[BOARD_DIM * (i - 1) + j])]]

\* The number of boards: three marks in each cell.
BoardCodes == 3 ^ (BOARD_DIM * BOARD_DIM)

\* A function on 1..BoardCodes as a sequence, computed once.
Tabulated(f) == SubSeq(f, 1, BoardCodes)

\* Every board, by number.
BoardTable == Tabulated([n \in 1..BoardCodes |-> BoardOf(n - 1)])

\* The number of empty cells of every board, by number.
EmptyTable == Tabulated([n \in 1..BoardCodes |-> Count(BoardTable[n], EMPTY)])

RECURSIVE ValueTable(_)
\* max_value and min_value, tabulated by board number: for every board with
\* at most k empty cells, max_value(board) and min_value(board), each
\* computed once from the values of the boards with one empty cell fewer
\* instead of by a recursion that visits a board once per path.  Boards
\* with more empty cells have no entry yet (0).
ValueTable(k) ==
    LET prev == IF k = 0 THEN <<>> ELSE ValueTable(k - 1)
    IN  Tabulated([n \in 1..BoardCodes |->
            LET b == BoardTable[n]
                empty == EmptyTable[n]
                next == {prev[BoardCode(result(b, action).value) + 1] :
                           action \in actions(b)}
            IN  IF empty > k THEN [max_value |-> 0, min_value |-> 0]
                ELSE IF empty < k THEN prev[n]
                ELSE IF terminal(b)
                     THEN [max_value |-> utility(b), min_value |-> utility(b)]
                     ELSE [max_value |-> SetMax({v.min_value : v \in next}),
                           min_value |-> SetMin({v.max_value : v \in next})]])

\* max_value and min_value of every board.
GameValues == ValueTable(BOARD_DIM * BOARD_DIM)

\* minimax, lines 137 and 141: the rating of one action, min_value of the
\* resulting board when X moves and max_value of it when O moves.
ActionRating(b, action) ==
    LET values == GameValues[BoardCode(result(b, action).value) + 1]
    IN  IF player(b) = X THEN values.min_value ELSE values.max_value

\* minimax, lines 138 and 142: the test that ends the loop at turn i.
BetterThanWorst(current_player, ratings, i) ==
    \/ current_player = X /\ ratings[i] > SetMin(Range(ratings))
    \/ current_player = O /\ ratings[i] < SetMax(Range(ratings))

\* The opponent of the minimax side plays any legal action.
GameOpponentMove ==
    /\ game.side \in {X, O}
    /\ ~terminal(board)
    /\ player(board) # game.side
    /\ \E action \in actions(board) : board' = result(board, action).value
    /\ UNCHANGED <<tttOut, game, cwVars, msVars>>

\* One turn of the loop of minimax (lines 135-145), called on the minimax
\* side's turn; the move it returns is played with result.  acts =
\* list(actions(board)) can come in any order, so each turn takes any
\* action not yet rated as the next element of acts.
GameMinimaxTurn ==
    /\ game.side \in {X, O}
    /\ ~terminal(board)
    /\ player(board) = game.side
    /\ \E action \in actions(board) \ Range(game.acts) :
          LET current_player == player(board)
              n == Cardinality(actions(board))
              acts == Append(game.acts, action)
              i == Len(acts)
              ratings == IF i = 1 THEN InitialRatings(current_player, n) ELSE game.ratings
              updated == [ratings EXCEPT ![i] = ActionRating(board, action)]
          IN  IF BetterThanWorst(current_player, updated, i)
              THEN /\ board' = result(board, acts[i]).value
                   /\ game' = [game EXCEPT !.acts = <<>>, !.ratings = <<>>]
              ELSE IF i = n
              THEN /\ board' = result(board, acts[1]).value
                   /\ game' = [game EXCEPT !.acts = <<>>, !.ratings = <<>>]
              ELSE /\ board' = board
                   /\ game' = [game EXCEPT !.acts = acts, !.ratings = updated]
    /\ UNCHANGED <<tttOut, cwVars, msVars>>

NextGame ==
    \/ GameOpponentMove
    \/ GameMinimaxTurn

NextTTT ==
    \/ CallResult
    \/ CallActions
    \/ CallMinimax
    \/ CallWinner
    \/ CallTerminal
    \/ CallUtility
    \/ Continue

----------------------------------------------------------------------------
(* Minesweeper (minesweeper.py): Minesweeper, Sentence, MinesweeperAI *)

\* The cells of the field, (row, column) from 0.
MsCells == {<<i, j>> : i \in 0..(MsHeight - 1), j \in 0..(MsWidth - 1)}

\* The fields a game can be played on: Minesweeper.mines.
MineFields == {m \in SUBSET MsCells : Cardinality(m) \in 1..MaxMines}

\* The cells within one row and one column of a cell, the cell included.
Around(cell) ==
    {c \in MsCells : /\ c[1] \in (cell[1] - 1)..(cell[1] + 1)
                     /\ c[2] \in (cell[2] - 1)..(cell[2] + 1)}

\* Minesweeper.nearby_mines on a field with the mines `mines`.
nearby_mines(mines, cell) == Cardinality((Around(cell) \ {cell}) \cap mines)

\* Sentence.__init__.
Sentence(cells, count) == [cells |-> cells, count |-> count]

\* Sentence.known_mines: the set holding the value returned, empty for None.
\* The value returned is self.cells itself, not a copy.
known_mines(s) == IF Cardinality(s.cells) = s.count THEN {s.cells} ELSE {}

\* Sentence.known_safes, likewise.
known_safes(s) == IF s.count = 0 THEN {s.cells} ELSE {}

\* A variant of Sentence.mark_mine that keeps the count.
mark_mine_keeps_count(s, cell) ==
    IF cell \in s.cells THEN [s EXCEPT !.cells = @ \ {cell}] ELSE s

\* Sentence.mark_mine.
mark_mine(s, cell) ==
    IF cell \in s.cells
    THEN [s EXCEPT !.cells = @ \ {cell}, !.count = @ - 1]
    ELSE s

\* Sentence.mark_safe.
mark_safe(s, cell) ==
    IF cell \in s.cells THEN [s EXCEPT !.cells = @ \ {cell}] ELSE s

\* MinesweeperAI.__init__.
NewAI == [moves_made |-> {}, mines |-> {}, safes |-> {}, knowledge |-> <<>>]

\* MinesweeperAI.mark_mine.
ai_mark_mine(a, cell) ==
    [a EXCEPT !.mines = @ \cup {cell},
              !.knowledge = [k \in 1..Len(@) |-> mark_mine(@[k], cell)]]

\* MinesweeperAI.mark_safe.
ai_mark_safe(a, cell) ==
    [a EXCEPT !.safes = @ \cup {cell},
              !.knowledge = [k \in 1..Len(@) |-> mark_safe(@[k], cell)]]

\* add_new_sentence.
add_new_sentence(a, cell, count) ==
    LET cell_neighbors == Around(cell)
        unknown_neighbors == cell_neighbors \ (a.safes \cup a.mines)
        adjusted == count - Cardinality(cell_neighbors \cap a.mines)
        new_sentence == Sentence(unknown_neighbors, adjusted)
    IN  IF new_sentence \notin Range(a.knowledge) /\ unknown_neighbors # {}
        THEN [a EXCEPT !.knowledge = Append(@, new_sentence)]
        ELSE a

RECURSIVE MarkCells(_, _, _)
\* resolve_sentences, lines 209-211 and 214-216: one sentence marked with
\* every cell of a copy of the known cells.
MarkCells(s, cells, as_mine) ==
    IF cells = {} THEN s
    ELSE LET cell == CHOOSE c \in cells : TRUE
         IN  MarkCells(IF as_mine THEN mark_mine(s, cell) ELSE mark_safe(s, cell),
                       cells \ {cell}, as_mine)

RECURSIVE ResolveInner(_, _, _, _)
\* resolve_sentences, lines 208-211 and 213-216: the loop over
\* self.knowledge, at its sentence p, for the known cells of sentence o.
\* The known cells are the cells of sentence o as they are at that turn:
\* known_mines and known_safes are self.cells of sentence o, which the turn
\* at p = o empties.
ResolveInner(a, o, p, as_mine) ==
    IF p > Len(a.knowledge) THEN a
    ELSE LET known == a.knowledge[o].cells
             marked == MarkCells(a.knowledge[p], known, as_mine)
         IN  ResolveInner([a EXCEPT !.knowledge[p] = marked,
                                    !.mines = IF as_mine THEN @ \cup known ELSE @,
                                    !.safes = IF as_mine THEN @ ELSE @ \cup known],
                          o, p + 1, as_mine)

RECURSIVE ResolveOuter(_, _)
\* resolve_sentences, lines 204-216: the outer loop at its sentence o.
ResolveOuter(a, o) ==
    IF o > Len(a.knowledge) THEN a
    ELSE LET sentence == a.knowledge[o]
             mines_known == known_mines(sentence) # {}
             safes_known == known_safes(sentence) # {}
             after_mines == IF mines_known THEN ResolveInner(a, o, 1, TRUE) ELSE a
             after_safes == IF safes_known THEN ResolveInner(after_mines, o, 1, FALSE)
                            ELSE after_mines
         IN  ResolveOuter(after_safes, o + 1)

\* resolve_sentences.
resolve_sentences(a) == ResolveOuter(a, 1)

\* cleanup_knowledge.
cleanup_knowledge(a) ==
    [a EXCEPT !.knowledge = SelectSeq(@, LAMBDA sentence : sentence.cells # {})]

\* list.remove: the list without its first element equal to s.
RemoveFirst(list, s) ==
    RemoveAt(list, CHOOSE k \in 1..Len(list) :
                       list[k] = s /\ \A m \in 1..(k - 1) : list[m] # s)

Abs(n) == IF n < 0 THEN 0 - n ELSE n

\* infer_sentences, lines 231-249: one pair (s1, s2) of the knowledge.
InferPair(updated_knowledge, s1, s2) ==
    LET count == Abs(s1.count - s2.count)
        Replace(inner, diff) ==
            LET removed == IF inner \in Range(updated_knowledge)
                           THEN RemoveFirst(updated_knowledge, inner)
                           ELSE updated_knowledge
            IN  IF diff # {} THEN Append(removed, Sentence(diff, count)) ELSE removed
    IN  IF s1.cells \subseteq s2.cells THEN Replace(s1, s2.cells \ s1.cells)
        ELSE IF s2.cells \subseteq s1.cells THEN Replace(s2, s1.cells \ s2.cells)
        ELSE updated_knowledge

RECURSIVE InferLoop(_, _, _, _)
\* infer_sentences, lines 225-249: the two loops at (i, j), from 1.
InferLoop(knowledge, updated_knowledge, i, j) ==
    IF i > Len(knowledge) THEN updated_knowledge
    ELSE IF j > Len(knowledge) THEN InferLoop(knowledge, updated_knowledge, i + 1, i + 2)
    ELSE InferLoop(knowledge, InferPair(updated_knowledge, knowledge[i], knowledge[j]),
                   i, j + 1)

\* infer_sentences.
infer_sentences(a) == [a EXCEPT !.knowledge = InferLoop(@, @, 1, 2)]

\* add_knowledge.
add_knowledge(a, cell, count) ==
    LET told == [a EXCEPT !.moves_made = @ \cup {cell},
                          !.safes = @ \cup {cell},
                          !.knowledge = [k \in 1..Len(@) |-> mark_safe(@[k], cell)]]
    IN  infer_sentences(cleanup_knowledge(resolve_sentences(
            add_new_sentence(told, cell, count))))

\* make_safe_move: the moves the loop can return, one per iteration order
\* of self.safes; none when the function returns None.
make_safe_move(a) == a.safes \ (a.moves_made \cup a.mines)

NoMove == <<>>
NoMsCall == [op |-> "none", cell |-> NoMove, count |-> 0, move |-> NoMove, calls |-> 0]

\* The calls of mark_mine and mark_safe made from outside the class.
MarkOps == {"mark_mine", "mark_safe"}

\* The game tells the AI the count of a cell that is not a mine.
CallAddKnowledge ==
    /\ msOut.op \notin MarkOps
    /\ msOut.calls < MaxCalls
    /\ \E cell \in MsCells \ mineField :
          LET count == nearby_mines(mineField, cell)
          IN  /\ ai' = add_knowledge(ai, cell, count)
              /\ msOut' = [op |-> "add_knowledge", cell |-> cell, count |-> count,
                           move |-> NoMove, calls |-> msOut.calls + 1]
    /\ UNCHANGED <<mineField, cwVars, tttVars>>

\* make_safe_move is called.
CallMakeSafeMove ==
    /\ msOut.op = "add_knowledge"
    /\ \E move \in (IF make_safe_move(ai) = {} THEN {NoMove} ELSE make_safe_move(ai)) :
          msOut' = [msOut EXCEPT !.op = "make_safe_move", !.move = move]
    /\ UNCHANGED <<mineField, ai, cwVars, tttVars>>

\* mark_mine is called from outside the class, on any cell; the run ends
\* with it.
CallMarkMine ==
    /\ msOut.op \notin MarkOps
    /\ \E cell \in MsCells :
          /\ ai' = ai_mark_mine(ai, cell)
          /\ msOut' = [msOut EXCEPT !.op = "mark_mine", !.cell = cell, !.count = 0,
                                    !.move = NoMove]
    /\ UNCHANGED <<mineField, cwVars, tttVars>>

\* mark_safe is called from outside the class, on any cell; the run ends
\* with it.
CallMarkSafe ==
    /\ msOut.op \notin MarkOps
    /\ \E cell \in MsCells :
          /\ ai' = ai_mark_safe(ai, cell)
          /\ msOut' = [msOut EXCEPT !.op = "mark_safe", !.cell = cell, !.count = 0,
                                    !.move = NoMove]
    /\ UNCHANGED <<mineField, cwVars, tttVars>>

NextMines ==
    \/ CallAddKnowledge
    \/ CallMakeSafeMove
    \/ CallMarkMine
    \/ CallMarkSafe

----------------------------------------------------------------------------
(* Specifications *)

InitTTTIdle ==
    /\ board = initial_state
    /\ tttOut = NoCall
    /\ game = NoGame
    /\ mineField = {}
    /\ ai = NewAI
    /\ msOut = NoMsCall

Init == InitCrossword /\ InitTTTIdle

Spec == Init /\ [][Next]_vars

\* solve() is one synchronous call: a step that can be taken is taken.
FairSpec == Spec /\ WF_vars(Next)

InitTTT ==
    /\ board = initial_state
    /\ tttOut = NoCall
    /\ game = NoGame
    /\ mineField = {}
    /\ ai = NewAI
    /\ msOut = NoMsCall
    /\ varOrder = <<>>
    /\ words = <<>>
    /\ driver = "none"
    /\ domains = <<>>
    /\ prevDomains = <<>>
    /\ assignment = EmptyAssignment
    /\ stack = <<>>
    /\ pc = "idle"
    /\ lastOp = "none"
    /\ arcs = <<>>
    /\ queue = <<>>
    /\ ctx = "none"
    /\ ac3ret = "none"
    /\ outcome = Pending
    /\ firstRun = [domains |-> <<>>, ret |-> "none"]
    /\ returned = <<>>
    /\ call = NoDetail

SpecTTT == InitTTT /\ [][NextTTT]_vars

\* A game from the empty board; either side can be the one that plays what
\* minimax returns.
InitGame ==
    /\ board = initial_state
    /\ tttOut = NoCall
    /\ game \in {[side |-> s, acts |-> <<>>, ratings |-> <<>>] : s \in {X, O}}
    /\ mineField = {}
    /\ ai = NewAI
    /\ msOut = NoMsCall
    /\ varOrder = <<>>
    /\ words = <<>>
    /\ driver = "none"
    /\ domains = <<>>
    /\ prevDomains = <<>>
    /\ assignment = EmptyAssignment
    /\ stack = <<>>
    /\ pc = "idle"
    /\ lastOp = "none"
    /\ arcs = <<>>
    /\ queue = <<>>
    /\ ctx = "none"
    /\ ac3ret = "none"
    /\ outcome = Pending
    /\ firstRun = [domains |-> <<>>, ret |-> "none"]
    /\ returned = <<>>
    /\ call = NoDetail

SpecGame == InitGame /\ [][NextGame]_vars

\* A new MinesweeperAI on any field.
InitMines ==
    /\ mineField \in MineFields
    /\ ai = NewAI
    /\ msOut = NoMsCall
    /\ board = initial_state
    /\ tttOut = NoCall
    /\ game = NoGame
    /\ varOrder = <<>>
    /\ words = <<>>
    /\ driver = "none"
    /\ domains = <<>>
    /\ prevDomains = <<>>
    /\ assignment = EmptyAssignment
    /\ stack = <<>>
    /\ pc = "idle"
    /\ lastOp = "none"
    /\ arcs = <<>>
    /\ queue = <<>>
    /\ ctx = "none"
    /\ ac3ret = "none"
    /\ outcome = Pending
    /\ firstRun = [domains |-> <<>>, ret |-> "none"]
    /\ returned = <<>>
    /\ call = NoDetail

SpecMines == InitMines /\ [][NextMines]_vars

----------------------------------------------------------------------------
(* Properties of the crossword solver *)

Slots == Range(varOrder)

\* A complete consistent assignment of the puzzle, stated on the grid: one
\* dictionary word per slot, of the slot's length, no word twice, and one
\* letter per shared cell.
IsSolution(a) ==
    /\ DOMAIN a = Slots
    /\ \A v \in Slots : a[v] \in Range(words) /\ Len(a[v]) = v.length
    /\ \A v1, v2 \in Slots : v1 # v2 => a[v1] # a[v2]
    /\ \A v1, v2 \in Slots : \A k1 \in 1..v1.length, k2 \in 1..v2.length :
          (v1 # v2 /\ Cells(v1)[k1] = Cells(v2)[k2]) => a[v1][k1] = a[v2][k2]

Solutions == {a \in [Slots -> Range(words)] : IsSolution(a)}

SolveEnded == driver = "solve" /\ pc \in {"done", "error"}

\* C1 (soundness): whenever solve() returns a mapping, the mapping gives
\* every slot a word of the slot's length, no two slots the same word, and
\* every two overlapping slots the same letter at their shared cell.
C1_Soundness ==
    (driver = "solve" /\ pc = "done" /\ outcome.kind = "assignment") =>
        LET a == outcome.value
        IN  /\ DOMAIN a = Slots
            /\ \A v \in Slots : Len(a[v]) = v.length
            /\ \A v1, v2 \in Slots : v1 # v2 => a[v1] # a[v2]
            /\ \A v1, v2 \in Slots : \A k1 \in 1..v1.length, k2 \in 1..v2.length :
                  (v1 # v2 /\ Cells(v1)[k1] = Cells(v2)[k2]) => a[v1][k1] = a[v2][k2]

\* solve() returned a mapping for the three-slot puzzle, whose two down
\* slots have the same length and both cross the across slot.
C1_Witness ==
    /\ driver = "solve"
    /\ pc = "done"
    /\ outcome.kind = "assignment"
    /\ Slots = ThreeStructure

\* C2 (completeness): when the puzzle has a complete consistent assignment,
\* solve() ends by returning one (never None, never an error), and when the
\* solution is unique it returns exactly that one.
C2_Completeness ==
    (SolveEnded /\ Solutions # {}) =>
        /\ outcome.kind = "assignment"
        /\ outcome.value \in Solutions

\* C3 (unsatisfiability): when the puzzle has no complete consistent
\* assignment, solve() ends by returning None: no mapping, no raised error.
C3_Unsatisfiable ==
    (SolveEnded /\ Solutions = {}) => outcome.kind = "None"

\* C4 (backtrack restoration): when a call of backtrack returns None, and
\* whenever its loop stands between two candidates, self.domains and the
\* assignment are what they were when the call was entered, which is what
\* they were before each failed candidate was tried.
C4_Restoration ==
    /\ pc = "loop" =>
          /\ domains = Top.entryDomains
          /\ assignment = Top.entryAssignment
    /\ lastOp = "return_none" =>
          /\ domains = returned[1].entryDomains
          /\ assignment = returned[1].entryAssignment
    /\ lastOp = "restore" =>
          /\ domains = Top.old_domains
          /\ assignment = Top.entryAssignment

\* A candidate whose inference had shrunk a neighbor's domain has failed
\* and has just been undone.
C4_Witness ==
    /\ lastOp = "restore"
    /\ \E n \in Top.inferred : domains[n] # prevDomains[n]

\* C5 (termination): a run stops only where solve() has returned, with
\* success or with root exhaustion; anywhere else a next step exists.
C5_Termination == pc = "done" \/ ENABLED Next

\* C6 (arc-consistency idempotence): a second ac3() right after a first one
\* on node-consistent domains removes no word.  Stated for the runs whose
\* first ac3() worked its list to the end and returned True.
C6_Ac3Idempotent ==
    (driver = "ac3_twice" /\ pc = "done" /\ firstRun.ret = "True") =>
        domains = firstRun.domains

\* C7 (domain monotonicity): a step of the run leaves every slot's domain
\* a subset of what it was, except the restore step of backtrack, which
\* may grow a domain, and then only back to the snapshot taken before the
\* failed candidate.
C7_Monotonic ==
    \A v \in DOMAIN domains :
        IF lastOp = "restore"
        THEN domains[v] = prevDomains[v] \/ domains[v] = Top.old_domains[v]
        ELSE Range(domains[v]) \subseteq Range(prevDomains[v])

\* The restore step has just grown a domain.
C7_Witness ==
    /\ lastOp = "restore"
    /\ \E v \in DOMAIN domains : Len(domains[v]) > Len(prevDomains[v])

----------------------------------------------------------------------------
(* Properties of the tic-tac-toe player *)

\* C9 (minimax optimality): on a board whose game is not over, minimax
\* returns a legal action whose value under optimal play is the best value
\* the player to move can get: the largest min_value over the actions for
\* X, the smallest max_value over the actions for O.
C9_MinimaxOptimal ==
    tttOut.op = "minimax" =>
        LET b == tttOut.before
            value == Ratings(b)
            best == IF player(b) = X
                    THEN SetMax({value[c] : c \in actions(b)})
                    ELSE SetMin({value[c] : c \in actions(b)})
        IN  /\ tttOut.value \in actions(b)
            /\ value[tttOut.value] = best

\* C10 (move application): actions(board) is the set of the empty cells;
\* result(board, a) raises exactly when cell a is occupied, and otherwise
\* returns a board that holds the mover's mark at a (X when the board has
\* as many X as O, else O) and equals the board elsewhere; the board passed
\* in is the same after the call.
C10_MoveApplication ==
    /\ tttOut.op = "actions" =>
          tttOut.value = {c \in AllCells : board[c[1] + 1][c[2] + 1] = EMPTY}
    /\ tttOut.op = "result" =>
          LET b == tttOut.before
              a == tttOut.action
              xs == Cardinality({c \in AllCells : b[c[1] + 1][c[2] + 1] = X})
              os == Cardinality({c \in AllCells : b[c[1] + 1][c[2] + 1] = O})
              mover == IF xs = os THEN X ELSE O
          IN  /\ board = b
              /\ tttOut.raised <=> b[a[1] + 1][a[2] + 1] # EMPTY
              /\ ~tttOut.raised =>
                    \A c \in AllCells :
                        tttOut.value[c[1] + 1][c[2] + 1] =
                            IF c = a THEN mover ELSE b[c[1] + 1][c[2] + 1]

\* result has returned a board on which O has just moved, into a board that
\* already held three marks.
C10_Witness ==
    /\ tttOut.op = "result"
    /\ ~tttOut.raised
    /\ tttOut.value[tttOut.action[1] + 1][tttOut.action[2] + 1] = O
    /\ Cardinality(actions(tttOut.before)) = 6

\* The eight lines of the grid, as sets of cells.
GridLines ==
    {{<<i, j>> : j \in 0..2} : i \in 0..2} \cup {{<<i, j>> : i \in 0..2} : j \in 0..2}
        \cup {{<<0, 0>>, <<1, 1>>, <<2, 2>>}, {<<0, 2>>, <<1, 1>>, <<2, 0>>}}

\* The mark fills a whole row, column or diagonal of the board.
Fills(b, mark) == \E line \in GridLines : \A c \in line : b[c[1] + 1][c[2] + 1] = mark

NoEmptyCell(b) == \A c \in AllCells : b[c[1] + 1][c[2] + 1] # EMPTY

\* C11 (outcome classification), as the claim states it: on every board
\* reached by result() from the empty board, winner returns X exactly when
\* X fills a line, O exactly when O fills a line, and None otherwise;
\* terminal is True exactly when winner is not None or no cell is empty;
\* utility is 1 if X has won, -1 if O has won and 0 otherwise.
C11_OutcomeExact ==
    LET b == tttOut.before
    IN  /\ tttOut.op = "winner" =>
              /\ tttOut.value = X <=> Fills(b, X)
              /\ tttOut.value = O <=> Fills(b, O)
              /\ tttOut.value = EMPTY <=> (~Fills(b, X) /\ ~Fills(b, O))
        /\ tttOut.op = "terminal" =>
              (tttOut.value <=> (Fills(b, X) \/ Fills(b, O) \/ NoEmptyCell(b)))
        /\ tttOut.op = "utility" =>
              tttOut.value = IF Fills(b, X) THEN 1 ELSE IF Fills(b, O) THEN 0 - 1 ELSE 0

\* C11 (outcome classification), amended: result() does not stop at a won
\* game, so a reachable board can hold a line of X and a line of O.  winner
\* returns a mark that fills a line, the only such mark when there is one,
\* and None exactly when no mark fills a line; terminal is True exactly
\* when some mark fills a line or no cell is empty; utility is 1 when
\* winner is X, -1 when winner is O, 0 when winner is None.
C11_Outcome ==
    LET b == tttOut.before
    IN  /\ tttOut.op = "winner" =>
              /\ tttOut.value \in {X, O, EMPTY}
              /\ tttOut.value = X => Fills(b, X)
              /\ tttOut.value = O => Fills(b, O)
              /\ tttOut.value = EMPTY <=> (~Fills(b, X) /\ ~Fills(b, O))
        /\ tttOut.op = "terminal" =>
              (tttOut.value <=> (Fills(b, X) \/ Fills(b, O) \/ NoEmptyCell(b)))
        /\ tttOut.op = "utility" =>
              /\ tttOut.value \in {1, 0 - 1, 0}
              /\ tttOut.value = 1 => Fills(b, X)
              /\ tttOut.value = 0 - 1 => Fills(b, O)
              /\ tttOut.value = 0 <=> (~Fills(b, X) /\ ~Fills(b, O))

\* winner was asked about a board that holds a line of X and a line of O.
C11_Witness ==
    /\ tttOut.op = "winner"
    /\ Fills(tttOut.before, X)
    /\ Fills(tttOut.before, O)

----------------------------------------------------------------------------
(* Properties of revise, ac3 and the two heuristics *)

\* The words of x's domain that have a partner in y's domain: some word of
\* y's domain holds the same letter in the cell the two slots share.
Supported(doms, x, y) ==
    {w \in Range(doms[x]) :
        \E v \in Range(doms[y]) : \E k1 \in 1..x.length, k2 \in 1..y.length :
            Cells(x)[k1] = Cells(y)[k2] /\ w[k1] = v[k2]}

SharesCell(x, y) == Range(Cells(x)) \cap Range(Cells(y)) # {}

\* C12 (arc revision): after revise(x, y) for two slots that share a cell,
\* x's domain holds exactly the words of its previous domain that have a
\* partner in y's domain; no word without a partner is left.
C12_ReviseExact ==
    (call.op = "revise" /\ SharesCell(call.x, call.y)) =>
        Range(domains[call.x]) = Supported(prevDomains, call.x, call.y)

\* Every word of every slot's domain has a partner in the domain of every
\* slot it shares a cell with.
ArcConsistent(doms) ==
    \A x \in DOMAIN doms, y \in DOMAIN doms :
        (x # y /\ SharesCell(x, y)) => Range(doms[x]) = Supported(doms, x, y)

\* An ac3() call with the default arcs has just returned: the one solve
\* makes before the search, or one of the two made in a row.
DefaultAc3Returned ==
    /\ lastOp \in {"revise", "ac3_return"}
    /\ pc # "ac3"
    /\ stack = <<>>

\* C13 (arc consistency after propagation): when ac3() with the default
\* arcs returns True on node-consistent domains, the domains are arc
\* consistent.
C13_ArcConsistent ==
    (DefaultAc3Returned /\ ac3ret = "True") => ArcConsistent(domains)

\* A call of ac3 has just returned: with the default arcs, or with the arcs
\* infer hands it.
Ac3Returned ==
    /\ lastOp \in {"revise", "ac3_return"}
    /\ pc # "ac3"

\* C14 (ac3 result signal): ac3 returns False whenever some slot's domain
\* is empty when it finishes, and True only when every domain is non-empty.
C14_Ac3Signal ==
    Ac3Returned => (ac3ret = "True" <=> \A v \in DOMAIN domains : domains[v] # <<>>)

\* select_unassigned_variable has just returned, to backtrack or to a
\* caller of its own; `assignment` is the one it was called with.
SelectReturned == call.op \in {"select", "select_order"}

\* C15 (slot selection is total): called with an assignment that does not
\* cover every slot, select_unassigned_variable returns a slot that is not
\* in the assignment, never None.
C15_SelectTotal ==
    (SelectReturned /\ DOMAIN assignment # Slots) =>
        call.var \in Slots \ DOMAIN assignment

\* The number of slots that share a cell with v.
Degree(v) == Cardinality({n \in Slots : n # v /\ SharesCell(v, n)})

\* The unassigned slots whose domain is the smallest.
SmallestUnassigned ==
    {v \in Slots \ DOMAIN assignment :
        \A n \in Slots \ DOMAIN assignment : Len(domains[v]) <= Len(domains[n])}

\* C16 (MRV with degree tie-break): the slot select_unassigned_variable
\* returns has the smallest domain among the unassigned slots, and among
\* the unassigned slots tied for that size none overlaps more slots.
C16_MrvDegree ==
    (SelectReturned /\ DOMAIN assignment # Slots) =>
        /\ call.var \in SmallestUnassigned
        /\ \A t \in SmallestUnassigned : Degree(t) <= Degree(call.var)

\* backtrack has just been entered: by solve, or by the recursive call
\* that follows infer.
BacktrackEntered == driver = "solve" /\ pc = "backtrack"

\* C17 (recursive-entry invariant): at every entry to backtrack, the domain
\* of every assigned slot s is exactly its assigned word, and every word
\* left in the domain of an unassigned slot that shares a cell with s holds
\* the letter of s's word in that cell.
C17_EntryInvariant ==
    BacktrackEntered =>
        \A s \in DOMAIN assignment :
            /\ domains[s] = <<assignment[s]>>
            /\ \A n \in Slots \ DOMAIN assignment : \A w \in Range(domains[n]) :
                  \A k1 \in 1..s.length, k2 \in 1..n.length :
                      Cells(s)[k1] = Cells(n)[k2] => assignment[s][k1] = w[k2]

\* A turn of the loop of ac3 has just ended in which revise shrank the
\* domain of call.x without emptying it.
Ac3Shrank ==
    /\ lastOp = "revise"
    /\ call.op = "revise"
    /\ call.ret
    /\ domains[call.x] # <<>>

\* C18 (ac3 re-enqueue rule): when revise(x, y) shrinks x's domain without
\* emptying it, ac3 appends the arc (z, x) for every slot z that shares a
\* cell with x, other than y, and no other arc.
C18_Reenqueue ==
    Ac3Shrank =>
        /\ Range(call.appended) =
              {<<z, call.x>> : z \in {n \in Slots \ {call.x, call.y} : SharesCell(n, call.x)}}
        /\ Cardinality(Range(call.appended)) = Len(call.appended)

\* order_domain_values has just returned call.values for the slot call.var;
\* `assignment` and `domains` are the ones it was called with.
OrderReturned == call.op \in {"order", "select_order"}

\* The number of pairs (unassigned slot n sharing a cell with var, word v
\* of n's domain) whose letter in the shared cell differs from w's.
Eliminated(var, w) ==
    Cardinality(
        {p \in UNION {{<<n, v>> : v \in Range(domains[n])} :
                        n \in {s \in Slots \ DOMAIN assignment : s # var /\ SharesCell(var, s)}} :
            \E k1 \in 1..var.length, k2 \in 1..p[1].length :
                Cells(var)[k1] = Cells(p[1])[k2] /\ w[k1] # p[2][k2]})

PositionIn(s, w) == CHOOSE k \in 1..Len(s) : s[k] = w

\* C19 (least-constraining-value ordering): order_domain_values(var,
\* assignment) returns the words of var's domain, each once, in ascending
\* order of the number of neighbor words they rule out; words with equal
\* numbers keep their order in the domain; no domain is changed.
C19_LcvOrder ==
    OrderReturned =>
        LET var == call.var
            values == call.values
        IN  /\ Len(values) = Len(domains[var])
            /\ Range(values) = Range(domains[var])
            /\ \A a, b \in 1..Len(values) :
                  a < b =>
                      \/ Eliminated(var, values[a]) < Eliminated(var, values[b])
                      \/ /\ Eliminated(var, values[a]) = Eliminated(var, values[b])
                         /\ PositionIn(domains[var], values[a]) < PositionIn(domains[var], values[b])
            /\ domains = prevDomains

\* order_domain_values returned a list in another order than the domain's,
\* with two words that rule out equally many neighbor words.
C19_Witness ==
    /\ OrderReturned
    /\ call.values # domains[call.var]
    /\ \E a, b \in 1..Len(call.values) :
          a # b /\ Eliminated(call.var, call.values[a]) = Eliminated(call.var, call.values[b])

\* C20 (revise result and frame): revise(x, y) returns True exactly when
\* it removed at least one word from x's domain; for two slots that share
\* no cell it returns False and changes no domain; in every case the domain
\* of every slot other than x, y's included, is what it was.
C20_ReviseFrame ==
    call.op = "revise" =>
        /\ Range(domains[call.x]) \subseteq Range(prevDomains[call.x])
        /\ call.ret <=> Range(domains[call.x]) # Range(prevDomains[call.x])
        /\ ~SharesCell(call.x, call.y) => (~call.ret /\ domains = prevDomains)
        /\ \A v \in Slots \ {call.x} : domains[v] = prevDomains[v]

\* revise was called with two slots that share no cell and domains that
\* hold words.
C20_Witness ==
    /\ call.op = "revise"
    /\ ~SharesCell(call.x, call.y)
    /\ domains[call.x] # <<>>
    /\ domains[call.y] # <<>>

\* The ac3 call made by infer is running, or has just returned to the
\* backtrack call that tried the candidate.
InferRunning ==
    \/ pc = "ac3" /\ ctx = "infer"
    \/ pc = "backtrack" /\ stack # <<>> /\ lastOp \in {"revise", "ac3_return"}

\* The slot that was just assigned and the slots infer returns: the
\* unassigned slots that share a cell with it.
InferFootprint ==
    {Top.var} \cup {n \in Slots \ DOMAIN assignment : SharesCell(n, Top.var)}

\* C21 (inference footprint): the propagation run by infer after a word is
\* assigned to slot v changes no domain other than v's own and those of
\* v's unassigned overlapping neighbors, the set infer returns: every other
\* domain is what it was in the snapshot taken before the assignment, and
\* every revise call of that propagation revises a slot of the footprint.
C21_InferFootprint ==
    InferRunning =>
        /\ Top.inferred = InferFootprint \ {Top.var}
        /\ \A s \in Slots \ InferFootprint : domains[s] = Top.old_domains[s]
        /\ lastOp = "revise" => call.x \in InferFootprint

\* On the three-slot puzzle infer has shrunk the domain of a neighbor of
\* the slot just assigned and has returned, and a third slot is outside the
\* footprint.
C21_Witness ==
    /\ pc = "backtrack"
    /\ stack # <<>>
    /\ lastOp \in {"revise", "ac3_return"}
    /\ Slots = ThreeStructure
    /\ \E n \in Top.inferred : Len(domains[n]) < Len(Top.old_domains[n])
    /\ Slots \ InferFootprint # {}

----------------------------------------------------------------------------
(* Properties of a game played with minimax *)

\* C22 (minimax never loses): in a game from the empty board in which one
\* side plays the action minimax returns and the other side any legal
\* action, no board is reached on which winner is the other side,
\* whichever side plays minimax and in whatever order the actions come.
C22_NeverLoses ==
    /\ game.side = X => winner(board) # O
    /\ game.side = O => winner(board) # X

\* A game was played to the end with minimax as O against an X that moved
\* five times: the board is full and nobody has a line.
C22_Witness ==
    /\ game.side = O
    /\ NoEmptyCell(board)
    /\ winner(board) = EMPTY

----------------------------------------------------------------------------
(* Properties of the minesweeper player *)

\* C23 (inference soundness): after any sequence of add_knowledge calls
\* that tell the true count of a cell that is not a mine (and no call of
\* mark_mine or mark_safe from outside the class), no cell of
\* self.safes is a mine, every cell of self.mines is a mine, the count of
\* every sentence of self.knowledge is the number of mines among its
\* cells, and make_safe_move never returns a mine.
C23_Sound ==
    msOut.op \notin MarkOps =>
    /\ ai.safes \cap mineField = {}
    /\ ai.mines \subseteq mineField
    /\ \A k \in 1..Len(ai.knowledge) :
          ai.knowledge[k].count = Cardinality(ai.knowledge[k].cells \cap mineField)
    /\ msOut.op = "make_safe_move" /\ msOut.move # NoMove => msOut.move \notin mineField

\* make_safe_move returned a cell while the AI knows a mine, a safe cell
\* it was never told about, and a sentence it has not resolved.
C23_Witness ==
    /\ msOut.op = "make_safe_move"
    /\ msOut.move # NoMove
    /\ ai.mines # {}
    /\ ai.safes \ ai.moves_made # {}
    /\ \E k \in 1..Len(ai.knowledge) : Cardinality(ai.knowledge[k].cells) > 1

\* C24 (knowledge kept simplified): after every add_knowledge call (before
\* any call of mark_mine or mark_safe from outside the class), no sentence
\* of self.knowledge holds a cell of self.mines or of self.safes.
C24_Simplified ==
    msOut.op \notin MarkOps =>
    \A k \in 1..Len(ai.knowledge) :
        ai.knowledge[k].cells \cap (ai.mines \cup ai.safes) = {}

====
